---------------------------- MODULE Spec2Model ----------------------------
(***************************************************************************)
(* Model of the autonomous bidding core of lelang-cli (src/autobid.py):    *)
(* AutoBidBot.run with its collaborators get_latest_bid_fast,              *)
(* get_latest_bid_concurrent, submit_bid_fast, _get_headers and            *)
(* get_remaining_seconds, and get_stored_token of src/auth.py.             *)
(*                                                                         *)
(* One step of the model is one stretch of run() between two points where  *)
(* the outside world can act (a response arrives, server time advances,    *)
(* Ctrl+C is pressed).  What a call reads from outside the process (an    *)
(* HTTP response, the token file) is an input of the step that reads it.   *)
(*                                                                         *)
(* Optional Python values are sequences of length 0 or 1: <<>> is None.    *)
(***************************************************************************)
EXTENDS Integers, Sequences, FiniteSets, TLC

(***************************************************************************)
(* Bounds of the model                                                     *)
(***************************************************************************)
\* largest bidAmount a ledger record carries
MaxAmount == 2
\* longest ledger page a response carries
MaxPage == 2
\* largest configured kelipatan_bid
MaxIncrement == 1
\* largest configured sniper_seconds
MaxSniper == 1
\* server time runs from 0 to MaxTime
MaxTime == 2
\* no poll is launched once total_requests has reached MaxRequests
MaxRequests == 6
\* the local clock (datetime.now()) runs from 0 to MaxLocal
MaxLocal == 4
\* largest time a response of the time service carries
MaxServerTime == 1
\* no request is counted once MaxSent requests have been sent
MaxSent == 6
\* refresh worker threads a process creates
MaxWorkers == 3
\* longest standby sleep, in slices of 0.5 s
MaxSlices == 2
\* in the statistics specification no poll is launched once total_requests
\* has reached MaxStatsRequests
MaxStatsRequests == 10

(***************************************************************************)
(* Program constants                                                       *)
(***************************************************************************)
\* run() races three requests per tick: get_latest_bid_concurrent(3)
NumRequests == 3
\* get_remaining_seconds() without an end time
NoEndRemaining == 9999999
\* timedelta(hours=7): a Date header is UTC, server time is WIB
WibHours == 7
\* poll_interval_ms defaults to 50
DefaultPollMs == 50
\* the standby interval is random.uniform(SlowMin, SlowMax) seconds
SlowMin == 60
SlowMax == 180
\* less than NearSnipe seconds before activation the interval is at most
\* NearCeiling; less than SoonSnipe seconds before it, at most SoonCeiling
NearSnipe == 300
NearCeiling == 30
SoonSnipe == 60
SoonCeiling == 5

VARIABLES
    \* --- AutoBidBot.__init__ arguments (fixed for the bot's lifetime)
    max_budget, kelipatan_bid, sniper_seconds, my_user_auction_id, end_time,
    \* --- AutoBidBot fields
    running, bidding_active, last_bid_amount, last_bidder_id, my_last_bid,
    total_bids_submitted, total_requests, is_my_bid, errors, headers,
    \* --- locals of run()
    remaining, next_bid, success, msg,
    \* --- the observation get_latest_bid_concurrent builds (bid_amount,
    \*     user_auction_id, my_bid) and run() receives under these names
    current_bid, bidder_id, my_bid_now,
    \* --- control: where run() is, how many requests of the tick's race have
    \*     finished, and which statement ended the loop
    pc, completed, exit,
    \* --- history: how many racing polls have returned to run() (the number
    \*     of terms summed in run()'s total_response_time)
    polls,
    \* --- history: the amount of the latest successful submit (0 before the
    \*     first one)
    last_won,
    \* --- the standby sleep: how many 0.5 s slices of it have been slept
    slices,
    \* --- environment: server time (get_server_time)
    now,
    \* --- module server_time: the globals _server_time_offset and _is_synced,
    \*     and who holds _server_time_lock ("" when it is free)
    server_time_offset, is_synced, lock_holder,
    \* --- a call of sync_server_time(): where it is, its locals local_before
    \*     and server_time - local_estimate, and the value it returned last
    sync_pc, local_before, new_offset, sync_result,
    \* --- the last values handed out: by get_server_time(), and as bidTime by
    \*     get_server_time_iso() in submit_bid_fast
    reading, bid_time,
    \* --- environment: the local clock (datetime.now())
    local_now,
    \* --- the credential store: the access_token in TOKEN_FILE (<<>> when
    \*     there is no file)
    token_file,
    \* --- the requests of the bot seen from outside: how many were sent, the
    \*     kind of the last call that asked for headers, and the bearer token
    \*     the last request carried
    requests_sent, request_kind, request_auth,
    \* --- the sleep at the end of a tick: the configured poll_interval_ms, the
    \*     standby interval run() chose (seconds), and the argument of the
    \*     active time.sleep (milliseconds); 0 while nothing was chosen
    poll_interval_ms, slow_interval, active_sleep_ms,
    \* --- a caller of is_time_synced(): the value it was returned last
    seen_synced,
    \* --- module auth: the Event _stop_refresh, the thread _refresh_thread
    \*     names (0 for None), where each refresh worker thread is, and the
    \*     call of the main thread that returned last
    stop_refresh, refresh_thread, worker_pc, auth_call

config == <<max_budget, kelipatan_bid, sniper_seconds, my_user_auction_id, end_time>>
fields == <<running, bidding_active, last_bid_amount, last_bidder_id, my_last_bid,
            total_bids_submitted, total_requests, is_my_bid, errors, headers>>
locals == <<remaining, next_bid, success, msg, current_bid, bidder_id, my_bid_now>>
control == <<pc, completed, exit, polls, last_won, slices>>
env == <<now>>
bot == <<config, fields, locals, control, env>>
clock == <<server_time_offset, is_synced, lock_holder, sync_pc, local_before,
           new_offset, sync_result, reading, bid_time, local_now>>
cred == <<token_file, requests_sent, request_kind, request_auth>>
nap == <<poll_interval_ms, slow_interval, active_sleep_ms>>
\* the state outside the bot's run, the clock and the credential store
flag_reader == <<seen_synced>>
auth == <<stop_refresh, refresh_thread, worker_pc, auth_call>>
others == <<nap, flag_reader, auth>>
vars == <<bot, clock, cred, others>>

(***************************************************************************)
(* Values exchanged with the remote service                                *)
(***************************************************************************)
Bidders == {"me", "other"}
Tokens == {"t1"}

\* what get_stored_token() can return: None, or token data with an access_token
StoredTokens == {<<>>} \cup {<<t>> : t \in Tokens}

\* one ledger record: {bidAmount, userAuctionId}
Records == [bidAmount : 0..MaxAmount, userAuctionId : Bidders]

RECURSIVE SeqsUpTo(_, _)
SeqsUpTo(S, n) ==
    IF n = 0 THEN {<<>>}
    ELSE LET shorter == SeqsUpTo(S, n - 1)
         IN  shorter \cup {Append(p, r) : p \in {q \in shorter : Len(q) = n - 1}, r \in S}

\* ledger pages, most recent record first
Pages == SeqsUpTo(Records, MaxPage)

\* What one GET of the bid history can come back as:
\*   exc       the request raised (timeout, connection error, invalid JSON)
\*   non200    an HTTP status other than 200
\*   malformed HTTP 200 whose JSON body is a non-empty array, not an object
\*   ok        HTTP 200 with body {"data": items}
HistoryResponses ==
    {[kind |-> k, items |-> <<>>] : k \in {"exc", "non200", "malformed"}}
        \cup {[kind |-> "ok", items |-> p] : p \in Pages}

\* What one POST of a bid can come back as: the request raised, or an HTTP
\* status with a body {code, message?}
SubmitResponses ==
    {[kind |-> "exc", status |-> 0, code |-> 0, message |-> <<"timeout">>]}
        \cup [kind : {"http"}, status : {200, 500}, code : {200, 400},
              message : {<<>>, <<"passkey salah">>}]


(***************************************************************************)
(* Pure helpers                                                            *)
(***************************************************************************)
Max(a, b) == IF a >= b THEN a ELSE b

\* mutant of Sentinel: a read that observed nothing reports a bid of 'other'
Sentinel_phantom == <<1, "other", 0>>

\* the (0, "", 0) result of a poll that observed nothing
Sentinel == <<0, "", 0>>

\* mutant of IsSelf: the self check is missing
IsSelf_never(bidder) == FALSE

\* is_my_bid: the bidder is me, when an own id is configured
IsSelf(bidder) ==
    IF my_user_auction_id # "" THEN bidder = my_user_auction_id ELSE FALSE

\* mutant of MyBidOf: the oldest own record of the page is taken
MyBidOf_last(own_id, items) ==
    LET mine == {i \in 1..Len(items) : items[i].userAuctionId = own_id}
    IN  IF own_id = "" \/ mine = {} THEN 0
        ELSE items[CHOOSE i \in mine : \A k \in mine : k <= i].bidAmount

\* the scan for my own most recent bid in the page
RECURSIVE MyBidOf(_, _)
MyBidOf(own_id, items) ==
    IF own_id = "" \/ items = <<>> THEN 0
    ELSE IF Head(items).userAuctionId = own_id THEN Head(items).bidAmount
    ELSE MyBidOf(own_id, Tail(items))

MyBid(items) == MyBidOf(my_user_auction_id, items)

\* (bid_amount, user_auction_id, my_bid) of a non-empty page
ParseLedgerOf(own_id, items) ==
    <<items[1].bidAmount, items[1].userAuctionId, MyBidOf(own_id, items)>>

ParseLedger(items) == ParseLedgerOf(my_user_auction_id, items)

\* One page for each result the parse of a non-empty page can give a bot
\* configured with own_id: the racing poll reads a page only through
\* ParseLedger, so these pages stand for all of Pages there.
DistinctPages ==
    [own_id \in {""} \cup Bidders |->
        {CHOOSE p \in Pages \ {<<>>} : ParseLedgerOf(own_id, p) = o :
            o \in {ParseLedgerOf(own_id, q) : q \in Pages \ {<<>>}}}]

\* what one request of the racing poll can come back as
RaceResponses ==
    {[kind |-> k, items |-> <<>>] : k \in {"exc", "non200", "malformed"}}
        \cup {[kind |-> "ok", items |-> p] : p \in {<<>>} \cup DistinctPages[my_user_auction_id]}

\* _get_headers, with stored what get_stored_token() would return: the cached
\* headers, else headers built from the stored token; it raises ValueError
\* when neither exists
HeadersAvailable(stored) == headers # <<>> \/ stored # <<>>
GetHeaders(stored) == IF headers # <<>> THEN headers ELSE stored

\* get_remaining_seconds
RemainingSeconds ==
    IF end_time = <<>> THEN NoEndRemaining ELSE Max(0, end_time[1] - now)

\* get_latest_bid_fast: the result and the error it appends, if any; every
\* exception, the missing token included, is caught inside it
GetLatestBidFast(stored, resp) ==
    IF ~HeadersAvailable(stored)
        THEN [result |-> Sentinel, err |-> <<"Token tidak ditemukan">>]
    ELSE IF resp.kind = "exc"
        THEN [result |-> Sentinel, err |-> <<"timeout">>]
    ELSE IF resp.kind = "malformed"
        THEN [result |-> Sentinel, err |-> <<"'list' object has no attribute 'get'">>]
    ELSE IF resp.kind = "ok" /\ resp.items # <<>>
        THEN [result |-> ParseLedger(resp.items), err |-> <<>>]
    ELSE [result |-> Sentinel, err |-> <<>>]

\* mutant of SubmitBidFast: HTTP 200 alone counts as success
SubmitBidFast_http(resp) ==
    IF resp.kind = "exc" THEN <<FALSE, resp.message[1]>>
    ELSE IF resp.status = 200 THEN <<TRUE, "Success">>
    ELSE <<FALSE, "HTTP 500">>

\* submit_bid_fast: (success, message) for a response
SubmitBidFast(resp) ==
    IF resp.kind = "exc" THEN <<FALSE, resp.message[1]>>
    ELSE IF resp.status = 200
        THEN IF resp.code = 200 THEN <<TRUE, "Success">>
             ELSE <<FALSE, IF resp.message # <<>> THEN resp.message[1] ELSE "Unknown error">>
    ELSE <<FALSE, "HTTP 500">>

(***************************************************************************)
(* Init: the module globals of server_time as the import leaves them, and  *)
(* a bot as AutoBidBot.__init__ leaves it, run() not yet called            *)
(***************************************************************************)
CredInit ==
    /\ token_file = <<>>
    /\ requests_sent = 0
    /\ request_kind = ""
    /\ request_auth = <<>>

ClockInit ==
    /\ server_time_offset = 0
    /\ is_synced = FALSE
    /\ lock_holder = ""
    /\ sync_pc = "idle"
    /\ local_before = 0
    /\ new_offset = 0
    /\ sync_result = <<>>
    /\ reading = <<>>
    /\ bid_time = <<>>
    /\ local_now = 0

\* module auth as imported: no refresh thread, the Event clear
AuthInit ==
    /\ stop_refresh = FALSE
    /\ refresh_thread = 0
    /\ worker_pc = [w \in 1..MaxWorkers |-> "unborn"]
    /\ auth_call = ""

\* no sleep has been chosen; poll_interval_ms is the default of __init__
NapInit ==
    /\ poll_interval_ms = DefaultPollMs
    /\ slow_interval = 0
    /\ active_sleep_ms = 0
    /\ seen_synced = FALSE
    /\ AuthInit

Init ==
    /\ max_budget \in MaxAmount..(MaxAmount + 1)
    /\ kelipatan_bid \in 1..MaxIncrement
    /\ sniper_seconds \in 0..MaxSniper
    /\ my_user_auction_id \in {"", "me"}
    /\ end_time \in {<<>>} \cup {<<t>> : t \in 1..MaxTime}
    /\ running = FALSE
    /\ bidding_active = (sniper_seconds = 0)
    /\ last_bid_amount = 0
    /\ last_bidder_id = ""
    /\ my_last_bid = 0
    /\ total_bids_submitted = 0
    /\ total_requests = 0
    /\ is_my_bid = FALSE
    /\ errors = <<>>
    /\ headers = <<>>
    /\ remaining = 0
    /\ next_bid = 0
    /\ success = FALSE
    /\ msg = ""
    /\ current_bid = 0
    /\ bidder_id = ""
    /\ my_bid_now = 0
    /\ pc = "init"
    /\ completed = 0
    /\ exit = ""
    /\ polls = 0
    /\ last_won = 0
    /\ slices = 0
    /\ now = 0
    /\ ClockInit
    /\ CredInit
    /\ NapInit

(***************************************************************************)
(* run(): start and initial fetch                                          *)
(***************************************************************************)
\* run() is entered: running = True, the first panel is drawn
RunStart ==
    /\ pc = "init"
    /\ running' = TRUE
    /\ pc' = "fetch"
    /\ UNCHANGED <<cred, others, clock, config, bidding_active, last_bid_amount, last_bidder_id, my_last_bid,
                   total_bids_submitted, total_requests, is_my_bid, errors, headers,
                   locals, completed, exit, polls, last_won, slices, env>>

\* mutant of Reconcile: the page's own record is taken even when it is 0
Reconcile_always(my_bid) == my_bid

\* my_last_bid after a ledger read reported my_bid as my own latest bid
Reconcile(my_bid) == IF my_bid > 0 THEN my_bid ELSE my_last_bid

\* the initial get_latest_bid_fast() and what run() does with its result
InitialFetch(stored, resp) ==
    /\ pc = "fetch"
    /\ LET r == GetLatestBidFast(stored, resp)
           initial_bid == r.result[1]
           initial_bidder == r.result[2]
           my_bid_from_history == r.result[3]
       IN  /\ headers' = GetHeaders(stored)
           /\ errors' = errors \o r.err
           /\ total_requests' = total_requests + 1
           /\ IF initial_bid > 0
                THEN /\ last_bid_amount' = initial_bid
                     /\ last_bidder_id' = initial_bidder
                     /\ is_my_bid' = IsSelf(initial_bidder)
                     /\ my_last_bid' = Reconcile(my_bid_from_history)
                ELSE UNCHANGED <<last_bid_amount, last_bidder_id, is_my_bid, my_last_bid>>
    /\ pc' = "top"
    /\ UNCHANGED <<cred, others, clock, config, running, bidding_active, total_bids_submitted,
                   locals, completed, exit, polls, last_won, slices, env>>

(***************************************************************************)
(* run(): top of a tick                                                    *)
(***************************************************************************)
\* mutant of AuctionOver: '<' for '<=' (remaining is clamped to >= 0)
AuctionOver_strict(rem) == rem < 0

\* the auction-end test on the remaining time just read
AuctionOver(rem) == rem <= 0

\* mutant of AuctionEnded: the break is missing, the tick goes on to poll
AuctionEnded_nobreak ==
    /\ running' = FALSE
    /\ pc' = "poll"
    /\ exit' = "auction_end"
    /\ UNCHANGED bidding_active

\* the auction has ended: running = False and break
AuctionEnded ==
    /\ running' = FALSE
    /\ pc' = "done"
    /\ exit' = "auction_end"
    /\ UNCHANGED bidding_active

\* mutant of SniperActivate: the comparison with sniper_seconds is missing
SniperActivate_early(rem) ==
    IF ~bidding_active /\ sniper_seconds > 0 THEN TRUE ELSE bidding_active

\* sniper mode: bidding becomes active once rem is within sniper_seconds
SniperActivate(rem) ==
    IF ~bidding_active /\ sniper_seconds > 0 /\ rem <= sniper_seconds
        THEN TRUE
        ELSE bidding_active

\* 'while self.running:', the auction-end check and the sniper activation
LoopTop ==
    /\ pc = "top"
    /\ running
    /\ remaining' = RemainingSeconds
    /\ IF AuctionOver(remaining')
         THEN AuctionEnded
         ELSE /\ bidding_active' = SniperActivate(remaining')
              /\ pc' = "poll"
              /\ UNCHANGED <<running, exit>>
    /\ UNCHANGED <<cred, others, clock, config, last_bid_amount, last_bidder_id, my_last_bid,
                   total_bids_submitted, total_requests, is_my_bid, errors, headers,
                   next_bid, success, msg, current_bid, bidder_id, my_bid_now,
                   completed, polls, last_won, slices, env>>

(***************************************************************************)
(* run(): the racing poll and the bid decision                             *)
(***************************************************************************)
\* an exception that run() does not catch leaves run(); running stays True
Raise ==
    /\ pc' = "raised"
    /\ exit' = "exception"

\* get_latest_bid_concurrent starts: headers are read outside any try, then
\* the three requests are launched
PollLaunchWithin(stored, cap) ==
    /\ pc = "poll"
    /\ total_requests < cap
    /\ IF HeadersAvailable(stored)
         THEN /\ headers' = GetHeaders(stored)
              /\ pc' = "race"
              /\ completed' = 0
              /\ UNCHANGED exit
         ELSE /\ Raise
              /\ UNCHANGED <<headers, completed>>
    /\ UNCHANGED <<cred, others, clock, config, running, bidding_active, last_bid_amount, last_bidder_id,
                   my_last_bid, total_bids_submitted, total_requests, is_my_bid, errors,
                   locals, polls, last_won, slices, env>>

PollLaunch(stored) == PollLaunchWithin(stored, MaxRequests)

\* mutant of Eligible: the comparison with my own last bid is missing
Eligible_nofloor(observed, own_last, self) ==
    bidding_active /\ ~self

\* mutant of Eligible: every positive observation leads to a bid attempt
Eligible_always(observed, own_last, self) == TRUE

\* the bid eligibility test of run()
Eligible(observed, own_last, self) ==
    bidding_active /\ ~self /\ observed >= own_last

\* mutant of NextBid: the increment is added to my own last bid
NextBid_own(observed) == my_last_bid + kelipatan_bid

\* next_bid = current_bid + kelipatan_bid
NextBid(observed) == observed + kelipatan_bid

\* mutant of WithinBudget: the budget is compared with the observed bid, not
\* with the bid about to be placed
WithinBudget_observed(bid) == bid - kelipatan_bid <= max_budget

\* the budget check
WithinBudget(bid) == bid <= max_budget

\* mutant of BudgetExceeded: the tick is abandoned but the loop goes on
BudgetExceeded_continue ==
    /\ pc' = "sleep"
    /\ UNCHANGED <<running, exit>>

\* budget exceeded: running = False and break
BudgetExceeded ==
    /\ running' = FALSE
    /\ pc' = "done"
    /\ exit' = "budget"

\* mutant of PollCount: only the winning request is counted
PollCount_winner(n) == n + 1

\* total_requests += 3 after a racing poll
PollCount(n) == n + NumRequests

\* run() after get_latest_bid_concurrent returned the observation: counters,
\* ledger reconciliation, the decision, and the call of submit_bid_fast
AfterPoll ==
    LET own_last == Reconcile(my_bid_now)
    IN  /\ total_requests' = PollCount(total_requests)
        /\ my_last_bid' = own_last
        /\ IF current_bid > 0
             THEN /\ last_bid_amount' = current_bid
                  /\ last_bidder_id' = bidder_id
                  /\ is_my_bid' = IsSelf(bidder_id)
                  /\ IF Eligible(current_bid, own_last, is_my_bid')
                       THEN /\ next_bid' = NextBid(current_bid)
                            /\ IF WithinBudget(next_bid')
                                 THEN /\ pc' = "submit"
                                      /\ UNCHANGED <<running, exit>>
                                 ELSE BudgetExceeded
                       ELSE /\ pc' = "sleep"
                            /\ UNCHANGED <<running, exit, next_bid>>
             ELSE /\ pc' = "sleep"
                  /\ UNCHANGED <<last_bid_amount, last_bidder_id, is_my_bid,
                                 running, exit, next_bid>>

\* a response fetch_bid turns into no data, or whose ledger is empty
Unusable(resp) == resp.kind \in {"exc", "non200"} \/ (resp.kind = "ok" /\ resp.items = <<>>)

\* mutant of FutureCompleted: the first response to complete decides, usable
\* or not
FutureCompleted_first(resp) ==
    /\ pc = "race"
    /\ IF resp.kind = "malformed"
         THEN /\ Raise
              /\ UNCHANGED <<current_bid, bidder_id, my_bid_now, completed>>
         ELSE /\ current_bid' = IF Unusable(resp) THEN Sentinel[1] ELSE ParseLedger(resp.items)[1]
              /\ bidder_id' = IF Unusable(resp) THEN Sentinel[2] ELSE ParseLedger(resp.items)[2]
              /\ my_bid_now' = IF Unusable(resp) THEN Sentinel[3] ELSE ParseLedger(resp.items)[3]
              /\ completed' = completed + 1
              /\ pc' = "drain"
              /\ UNCHANGED exit
    /\ UNCHANGED <<cred, others, clock, config, fields, remaining, next_bid, success, msg, polls, last_won, slices, env>>

\* as_completed yields the next finished request of the race and the loop
\* body examines it. A usable response fixes the observation and the function
\* executes its return; when the last request was unusable too, the loop ends
\* and the sentinel is the observation. Either way the function is leaving the
\* 'with ThreadPoolExecutor' block (pc "drain").
FutureCompleted(resp) ==
    /\ pc = "race"
    /\ IF resp.kind = "malformed"
         THEN /\ Raise
              /\ UNCHANGED <<current_bid, bidder_id, my_bid_now, completed>>
         ELSE IF ~Unusable(resp)
         THEN /\ current_bid' = ParseLedger(resp.items)[1]
              /\ bidder_id' = ParseLedger(resp.items)[2]
              /\ my_bid_now' = ParseLedger(resp.items)[3]
              /\ completed' = completed + 1
              /\ pc' = "drain"
              /\ UNCHANGED exit
         ELSE IF completed + 1 = NumRequests
         THEN /\ current_bid' = Sentinel[1]
              /\ bidder_id' = Sentinel[2]
              /\ my_bid_now' = Sentinel[3]
              /\ completed' = completed + 1
              /\ pc' = "drain"
              /\ UNCHANGED exit
         ELSE /\ completed' = completed + 1
              /\ UNCHANGED <<current_bid, bidder_id, my_bid_now, pc, exit>>
    /\ UNCHANGED <<cred, others, clock, config, fields, remaining, next_bid, success, msg, polls, last_won, slices, env>>

\* leaving the 'with' block is executor.shutdown(wait=True): a request still
\* in flight finishes (its response is never looked at) before the function
\* returns
StragglerCompleted ==
    /\ pc = "drain"
    /\ completed < NumRequests
    /\ completed' = completed + 1
    /\ UNCHANGED <<cred, others, clock, config, fields, locals, pc, exit, polls, last_won, slices, env>>

\* mutant of PollReturn: the function returns with requests still in flight
PollReturn_early ==
    /\ pc = "drain"
    /\ completed' = 0
    /\ polls' = polls + 1
    /\ AfterPoll
    /\ UNCHANGED <<cred, others, clock, config, bidding_active, total_bids_submitted, errors, headers,
                   remaining, success, msg, current_bid, bidder_id, my_bid_now,
                   last_won, slices, env>>

\* get_latest_bid_concurrent returns to run() once no request is in flight
PollReturn ==
    /\ pc = "drain"
    /\ completed = NumRequests
    /\ completed' = 0
    /\ polls' = polls + 1
    /\ AfterPoll
    /\ UNCHANGED <<cred, others, clock, config, bidding_active, total_bids_submitted, errors, headers,
                   remaining, success, msg, current_bid, bidder_id, my_bid_now,
                   last_won, slices, env>>

(***************************************************************************)
(* run(): the submit returns                                               *)
(***************************************************************************)
\* mutant of RecordSubmit: my_last_bid is updated before the outcome is tested
RecordSubmit_optimistic(ok, m) ==
    /\ my_last_bid' = next_bid
    /\ IF ok
         THEN /\ total_bids_submitted' = total_bids_submitted + 1
              /\ UNCHANGED errors
         ELSE /\ errors' = Append(errors, m)
              /\ UNCHANGED total_bids_submitted

\* mutant of RecordSubmit: a successful submit is not counted
RecordSubmit_nocount(ok, m) ==
    IF ok
        THEN /\ my_last_bid' = next_bid
             /\ UNCHANGED <<total_bids_submitted, errors>>
        ELSE /\ errors' = Append(errors, m)
             /\ UNCHANGED <<my_last_bid, total_bids_submitted>>

\* what run() records for the outcome (ok, m) of submitting next_bid
RecordSubmit(ok, m) ==
    IF ok
        THEN /\ my_last_bid' = next_bid
             /\ total_bids_submitted' = total_bids_submitted + 1
             /\ UNCHANGED errors
        ELSE /\ errors' = Append(errors, m)
             /\ UNCHANGED <<my_last_bid, total_bids_submitted>>

\* mutant of SubmitReturn: a failed submit stops the engine
SubmitReturn_fatal(resp) ==
    /\ pc = "submit"
    /\ success' = SubmitBidFast(resp)[1]
    /\ msg' = SubmitBidFast(resp)[2]
    /\ total_requests' = total_requests + 1
    /\ RecordSubmit(success', msg')
    /\ last_won' = IF success' THEN next_bid ELSE last_won
    /\ IF success'
         THEN pc' = "sleep" /\ UNCHANGED <<running, exit>>
         ELSE pc' = "done" /\ running' = FALSE /\ exit' = "submit_failed"
    /\ UNCHANGED <<cred, others, clock, config, bidding_active, last_bid_amount, last_bidder_id,
                   is_my_bid, headers, remaining, next_bid, current_bid, bidder_id,
                   my_bid_now, completed, polls, slices, env>>

\* mutant of SubmitReturn: a failed submit is repeated within the tick
SubmitReturn_retry(resp) ==
    /\ pc = "submit"
    /\ success' = SubmitBidFast(resp)[1]
    /\ msg' = SubmitBidFast(resp)[2]
    /\ total_requests' = total_requests + 1
    /\ RecordSubmit(success', msg')
    /\ last_won' = IF success' THEN next_bid ELSE last_won
    /\ pc' = IF success' \/ total_requests >= MaxRequests THEN "sleep" ELSE "submit"
    /\ UNCHANGED <<cred, others, clock, config, running, bidding_active, last_bid_amount, last_bidder_id,
                   is_my_bid, headers, remaining, next_bid, current_bid, bidder_id,
                   my_bid_now, completed, exit, polls, slices, env>>

\* submit_bid_fast(next_bid) returns
SubmitReturn(resp) ==
    /\ pc = "submit"
    /\ success' = SubmitBidFast(resp)[1]
    /\ msg' = SubmitBidFast(resp)[2]
    /\ total_requests' = total_requests + 1
    /\ RecordSubmit(success', msg')
    /\ last_won' = IF success' THEN next_bid ELSE last_won
    /\ pc' = "sleep"
    /\ UNCHANGED <<cred, others, clock, config, running, bidding_active, last_bid_amount, last_bidder_id,
                   is_my_bid, headers, remaining, next_bid, current_bid, bidder_id,
                   my_bid_now, completed, exit, polls, slices, env>>

(***************************************************************************)
(* run(): sleeping until the next tick                                     *)
(***************************************************************************)
\* active: time.sleep(poll_interval)
SleepActive ==
    /\ pc = "sleep"
    /\ bidding_active
    /\ pc' = "top"
    /\ UNCHANGED <<cred, others, clock, config, fields, locals, completed, exit, polls, last_won, slices, env>>

\* mutant of StandbySlice: the slice does not look at the sniper threshold
StandbySlice_deaf ==
    /\ pc = "sleep"
    /\ ~bidding_active
    /\ \/ /\ slices + 1 < MaxSlices
          /\ slices' = slices + 1
          /\ pc' = "sleep"
       \/ /\ slices' = 0
          /\ pc' = "top"
    /\ UNCHANGED <<cred, others, clock, config, fields, locals, completed, exit, polls, last_won, env>>

\* standby: one pass of 'while time.time() < sleep_end and self.running':
\* a slice of 0.5 s is slept, then the sniper threshold is checked. The sleep
\* ends when the threshold is reached or when sleep_end has passed (the
\* interval is random, at most MaxSlices slices here).
StandbySlice ==
    /\ pc = "sleep"
    /\ ~bidding_active
    /\ IF RemainingSeconds <= sniper_seconds
         THEN /\ slices' = 0
              /\ pc' = "top"
         ELSE \/ /\ slices + 1 < MaxSlices
                 /\ slices' = slices + 1
                 /\ pc' = "sleep"
              \/ /\ slices' = 0
                 /\ pc' = "top"
    /\ UNCHANGED <<cred, others, clock, config, fields, locals, completed, exit, polls, last_won, env>>

(***************************************************************************)
(* Cancellation and the environment                                        *)
(***************************************************************************)
\* Ctrl+C anywhere inside run()'s try block: running = False, run() ends
KeyboardInterrupt ==
    /\ pc \in {"fetch", "top", "poll", "race", "drain", "submit", "sleep"}
    /\ running' = FALSE
    /\ pc' = "done"
    /\ exit' = "cancel"
    /\ UNCHANGED <<cred, others, clock, config, bidding_active, last_bid_amount, last_bidder_id, my_last_bid,
                   total_bids_submitted, total_requests, is_my_bid, errors, headers,
                   locals, completed, polls, last_won, slices, env>>

\* server time advances (it is read only through end_time)
AdvanceTime ==
    /\ pc \notin {"done", "raised"}
    /\ end_time # <<>>
    /\ now < MaxTime
    /\ now' = now + 1
    /\ UNCHANGED <<cred, others, clock, config, fields, locals, control>>

Next ==
    \/ RunStart
    \/ pc = "fetch" /\ \E stored \in StoredTokens, resp \in HistoryResponses : InitialFetch(stored, resp)
    \/ LoopTop
    \/ pc = "poll" /\ \E stored \in StoredTokens : PollLaunch(stored)
    \/ pc = "race" /\ \E resp \in RaceResponses : FutureCompleted(resp)
    \/ StragglerCompleted
    \/ PollReturn
    \/ pc = "submit" /\ \E resp \in SubmitResponses : SubmitReturn(resp)
    \/ SleepActive
    \/ StandbySlice
    \/ KeyboardInterrupt
    \/ AdvanceTime

Spec == Init /\ [][Next]_vars

(***************************************************************************)
(* The statistics of a longer run: the same bot under one configuration    *)
(* (no sniper, no end time, a budget no bid of the ledger exhausts), with  *)
(* room for three racing polls.                                            *)
(***************************************************************************)
\* the divisor of avg_response_time_ms when total_requests is n
AvgDivisor(n) == n \div NumRequests

InitStats ==
    /\ Init
    /\ max_budget = MaxAmount + 1
    /\ kelipatan_bid = 1
    /\ sniper_seconds = 0
    /\ my_user_auction_id = "me"
    /\ end_time = <<>>

NextStats ==
    \/ RunStart
    \/ pc = "fetch" /\ \E stored \in StoredTokens, resp \in HistoryResponses : InitialFetch(stored, resp)
    \/ LoopTop
    \/ pc = "poll" /\ \E stored \in StoredTokens : PollLaunchWithin(stored, MaxStatsRequests)
    \/ pc = "race" /\ \E resp \in RaceResponses : FutureCompleted(resp)
    \/ StragglerCompleted
    \/ PollReturn
    \/ pc = "submit" /\ \E resp \in SubmitResponses : SubmitReturn(resp)
    \/ SleepActive
    \/ KeyboardInterrupt

SpecStats == InitStats /\ [][NextStats]_vars

(***************************************************************************)
(* Termination of a run with an end time. Sleeping takes time: in this     *)
(* specification every sleep of the loop (the active sleep, a slice of the *)
(* standby sleep) lets one unit of server time pass. Every call the engine *)
(* makes returns (the HTTP client has timeouts, the executor waits for a   *)
(* finite race), so an engine step that can be taken is eventually taken.  *)
(***************************************************************************)
\* enough requests for a run that sleeps through all of 0..MaxTime
LiveRequests == 1 + (NumRequests + 1) * (MaxTime + 2)

\* server time after a sleep
Elapsed == IF end_time # <<>> /\ now < MaxTime THEN now + 1 ELSE now

\* time.sleep(poll_interval), with the time it takes
SleepActiveLive ==
    /\ pc = "sleep"
    /\ bidding_active
    /\ pc' = "top"
    /\ now' = Elapsed
    /\ UNCHANGED <<cred, others, clock, config, fields, locals, completed, exit, polls,
                   last_won, slices>>

\* one pass of the standby sleep loop, with the time its slice takes; the
\* sniper threshold is checked after the slice
StandbySliceLive ==
    /\ pc = "sleep"
    /\ ~bidding_active
    /\ now' = Elapsed
    /\ LET remaining_after ==
               IF end_time = <<>> THEN NoEndRemaining ELSE Max(0, end_time[1] - now')
       IN  IF remaining_after <= sniper_seconds
             THEN /\ slices' = 0
                  /\ pc' = "top"
             ELSE \/ /\ slices + 1 < MaxSlices
                     /\ slices' = slices + 1
                     /\ pc' = "sleep"
                  \/ /\ slices' = 0
                     /\ pc' = "top"
    /\ UNCHANGED <<cred, others, clock, config, fields, locals, completed, exit, polls,
                   last_won>>

\* a bot with an end time
InitLive ==
    /\ Init
    /\ end_time # <<>>

\* the steps of the engine itself
EngineStep ==
    \/ RunStart
    \/ pc = "fetch" /\ \E stored \in StoredTokens, resp \in HistoryResponses : InitialFetch(stored, resp)
    \/ LoopTop
    \/ pc = "poll" /\ \E stored \in StoredTokens : PollLaunchWithin(stored, LiveRequests)
    \/ pc = "race" /\ \E resp \in RaceResponses : FutureCompleted(resp)
    \/ StragglerCompleted
    \/ PollReturn
    \/ pc = "submit" /\ \E resp \in SubmitResponses : SubmitReturn(resp)
    \/ SleepActiveLive
    \/ StandbySliceLive

NextLive ==
    \/ EngineStep
    \/ KeyboardInterrupt
    \/ AdvanceTime

SpecLive == InitLive /\ [][NextLive]_vars /\ WF_vars(EngineStep)

(***************************************************************************)
(* Module server_time (src/server_time.py): sync_server_time and the        *)
(* readers of the synced clock. Times are whole numbers of one unit; the    *)
(* local clock advances two units at a time, so that the midpoint of a      *)
(* round trip is a whole number.                                            *)
(***************************************************************************)
ServerTimes == 0..MaxServerTime

\* What the GET of SERVER_TIME_URL can come back as: the request raised, or
\* an HTTP status with
\*   body  "time"    JSON with data.time or time, an ISO string that parses
\*         "garbage" JSON with such a field that fromisoformat rejects
\*         "notime"  a JSON object without such a field
\*         "nojson"  anything else (json() or the field lookup raises)
\*   date  "date"    a Date header that strptime parses (UTC)
\*         "garbage" a Date header that strptime rejects
\*         "absent"  no Date header
SyncBodies ==
    [form : {"garbage", "notime", "nojson"}, time : {0}]
        \cup [form : {"time"}, time : ServerTimes]
SyncDates ==
    [form : {"garbage", "absent"}, time : {0}] \cup [form : {"date"}, time : ServerTimes]
SyncResponses ==
    {[kind |-> "exc", status |-> 0, body |-> [form |-> "nojson", time |-> 0],
      date |-> [form |-> "absent", time |-> 0]]}
        \cup [kind : {"http"}, status : {200, 500}, body : SyncBodies, date : SyncDates]

\* the second read of the Date header, after the body gave nothing
DateFallback(resp) ==
    IF resp.date.form = "date"
        THEN [ok |-> TRUE, server_time |-> resp.date.time + WibHours]
        ELSE [ok |-> FALSE, server_time |-> 0]

\* the server time sync_server_time takes from a response, if any
ParseServerTime(resp) ==
    IF resp.kind = "exc" THEN [ok |-> FALSE, server_time |-> 0]
    ELSE IF resp.status = 200 /\ resp.body.form = "time"
        THEN [ok |-> TRUE, server_time |-> resp.body.time]
    ELSE IF resp.status = 200 /\ resp.body.form = "notime" /\ resp.date.form = "absent"
        THEN [ok |-> FALSE, server_time |-> 0]
    ELSE DateFallback(resp)

\* mutant of ServerNow: the offset is not applied
ServerNow_local == local_now

\* One response for each result ParseServerTime can give: sync_server_time
\* reads a response only through that parse, so these responses stand for
\* all of SyncResponses in the step that receives one.
DistinctSyncResponses ==
    {CHOOSE r \in SyncResponses : ParseServerTime(r) = o :
        o \in {ParseServerTime(q) : q \in SyncResponses}}

\* get_server_time: datetime.now() + _server_time_offset
ServerNow == local_now + server_time_offset

\* sync_server_time() is called: local_before is taken, the request leaves
SyncStart ==
    /\ sync_pc = "idle"
    /\ local_before' = local_now
    /\ sync_pc' = "sent"
    /\ UNCHANGED <<cred, others, bot, server_time_offset, is_synced, lock_holder, new_offset,
                   sync_result, reading, bid_time, local_now>>

\* mutant of SyncResponse: a failed sync resets the clock to unsynced
SyncResponse_reset(resp) ==
    /\ sync_pc = "sent"
    /\ LET parsed == ParseServerTime(resp)
           round_trip == local_now - local_before
           local_estimate == local_before + round_trip \div 2
       IN  IF parsed.ok
             THEN /\ new_offset' = parsed.server_time - local_estimate
                  /\ sync_pc' = "lock"
                  /\ UNCHANGED <<sync_result, server_time_offset, is_synced>>
             ELSE /\ sync_result' = <<FALSE>>
                  /\ sync_pc' = "idle"
                  /\ server_time_offset' = 0
                  /\ is_synced' = FALSE
                  /\ UNCHANGED new_offset
    /\ UNCHANGED <<cred, others, bot, lock_holder, local_before, reading, bid_time, local_now>>

\* the request comes back (local_after is taken) or raises; without a server
\* time the call returns False
SyncResponse(resp) ==
    /\ sync_pc = "sent"
    /\ LET parsed == ParseServerTime(resp)
           round_trip == local_now - local_before
           local_estimate == local_before + round_trip \div 2
       IN  IF parsed.ok
             THEN /\ new_offset' = parsed.server_time - local_estimate
                  /\ sync_pc' = "lock"
                  /\ UNCHANGED sync_result
             ELSE /\ sync_result' = <<FALSE>>
                  /\ sync_pc' = "idle"
                  /\ UNCHANGED new_offset
    /\ UNCHANGED <<cred, others, bot, server_time_offset, is_synced, lock_holder, local_before,
                   reading, bid_time, local_now>>

\* 'with _server_time_lock:' is entered and the offset is written
SyncWriteOffset ==
    /\ sync_pc = "lock"
    /\ lock_holder = ""
    /\ lock_holder' = "sync"
    /\ server_time_offset' = new_offset
    /\ sync_pc' = "flag"
    /\ UNCHANGED <<cred, others, bot, is_synced, local_before, new_offset, sync_result, reading,
                   bid_time, local_now>>

\* _is_synced = True, the lock is released, the call returns True
SyncSetFlag ==
    /\ sync_pc = "flag"
    /\ is_synced' = TRUE
    /\ lock_holder' = ""
    /\ sync_result' = <<TRUE>>
    /\ sync_pc' = "idle"
    /\ UNCHANGED <<cred, others, bot, server_time_offset, local_before, new_offset, reading,
                   bid_time, local_now>>

\* a caller reads is_time_synced(): the flag is returned without the lock
IsTimeSynced ==
    /\ seen_synced' = is_synced
    /\ UNCHANGED <<bot, clock, cred, nap, auth>>

\* mutant of GetServerTime: the offset is read without the lock
GetServerTime_unlocked ==
    /\ reading' = <<ServerNow>>
    /\ UNCHANGED <<cred, others, bot, server_time_offset, is_synced, lock_holder, sync_pc,
                   local_before, new_offset, sync_result, bid_time, local_now>>

\* a caller reads get_server_time() (under the lock)
GetServerTime ==
    /\ lock_holder = ""
    /\ reading' = <<ServerNow>>
    /\ UNCHANGED <<cred, others, bot, server_time_offset, is_synced, lock_holder, sync_pc,
                   local_before, new_offset, sync_result, bid_time, local_now>>

\* submit_bid_fast takes bidTime from get_server_time_iso()
SubmitBidTime ==
    /\ lock_holder = ""
    /\ bid_time' = <<ServerNow>>
    /\ UNCHANGED <<cred, others, bot, server_time_offset, is_synced, lock_holder, sync_pc,
                   local_before, new_offset, sync_result, reading, local_now>>

\* the local clock advances
LocalTick ==
    /\ local_now < MaxLocal
    /\ local_now' = local_now + 2
    /\ UNCHANGED <<cred, others, bot, server_time_offset, is_synced, lock_holder, sync_pc,
                   local_before, new_offset, sync_result, reading, bid_time>>

\* the process before any bot runs: the bot is constructed and idle
InitClock ==
    /\ Init
    /\ max_budget = MaxAmount
    /\ kelipatan_bid = 1
    /\ sniper_seconds = 0
    /\ my_user_auction_id = ""
    /\ end_time = <<>>

NextClock ==
    \/ SyncStart
    \/ sync_pc = "sent" /\ \E resp \in DistinctSyncResponses : SyncResponse(resp)
    \/ SyncWriteOffset
    \/ SyncSetFlag
    \/ GetServerTime
    \/ IsTimeSynced
    \/ SubmitBidTime
    \/ LocalTick

SpecClock == InitClock /\ [][NextClock]_vars

(***************************************************************************)
(* The sleep at the end of a tick (src/autobid.py, run(), "Adaptive        *)
(* polling interval"): how long the engine sleeps, as a function of the    *)
(* mode, the remaining time taken at the top of the tick, and the random   *)
(* draw. The inputs are drawn at the start; intervals are whole seconds.   *)
(***************************************************************************)
Min(a, b) == IF a <= b THEN a ELSE b

\* mutant of SlowInterval: the one-minute clamp is missing
SlowInterval_noclamp(draw, rem, sniper) ==
    IF rem - sniper < NearSnipe THEN Min(draw, NearCeiling) ELSE draw

\* slow_interval as run() computes it from the draw of random.uniform
SlowInterval(draw, rem, sniper) ==
    LET time_to_snipe == rem - sniper
        near == IF time_to_snipe < NearSnipe THEN Min(draw, NearCeiling) ELSE draw
    IN  IF time_to_snipe < SoonSnipe THEN Min(near, SoonCeiling) ELSE near

\* what random.uniform(SlowMin, SlowMax) can draw
RandomDraws == SlowMin..SlowMax

\* times to sniper activation around the two thresholds
TimesToSnipe ==
    {1, SoonCeiling, SoonSnipe - 1, SoonSnipe, SoonSnipe + 1, NearSnipe - 1, NearSnipe,
     NearSnipe + 1}

\* the remaining time a tick can have taken at its top when it reaches its
\* sleep: the one of a run without end time, or a time still ahead of the
\* sniper threshold in standby
NapRemainings(sniper, active) ==
    {NoEndRemaining} \cup {(IF active THEN 0 ELSE sniper) + t : t \in TimesToSnipe}

\* poll_interval_ms as the callers pass it
PollIntervals == {10, DefaultPollMs, 500}

\* the active sleep: time.sleep(self.poll_interval), poll_interval being
\* poll_interval_ms / 1000 seconds
NapActive ==
    /\ pc = "sleep"
    /\ bidding_active
    /\ active_sleep_ms' = poll_interval_ms
    /\ pc' = "napping"
    /\ UNCHANGED <<clock, cred, config, fields, locals, completed, exit, polls, last_won, slices, env,
                   poll_interval_ms, slow_interval, flag_reader, auth>>

\* the standby sleep: slow_interval is chosen
NapStandby(draw) ==
    /\ pc = "sleep"
    /\ ~bidding_active
    /\ slow_interval' = SlowInterval(draw, remaining, sniper_seconds)
    /\ pc' = "napping"
    /\ UNCHANGED <<clock, cred, config, fields, locals, completed, exit, polls, last_won, slices, env,
                   poll_interval_ms, active_sleep_ms, flag_reader, auth>>

\* a tick has reached its sleep: a running bot, in standby only with the
\* sniper threshold still ahead (the top of the tick activates otherwise)
InitNap ==
    /\ max_budget = MaxAmount
    /\ kelipatan_bid = 1
    /\ sniper_seconds \in {0, 1, SoonSnipe}
    /\ my_user_auction_id = ""
    /\ running = TRUE
    /\ bidding_active \in IF sniper_seconds = 0 THEN {TRUE} ELSE BOOLEAN
    /\ last_bid_amount = 0
    /\ last_bidder_id = ""
    /\ my_last_bid = 0
    /\ total_bids_submitted = 0
    /\ total_requests = 1 + NumRequests
    /\ is_my_bid = FALSE
    /\ errors = <<>>
    /\ headers = <<"t1">>
    /\ remaining \in NapRemainings(sniper_seconds, bidding_active)
    /\ end_time = IF remaining = NoEndRemaining THEN <<>> ELSE <<remaining>>
    /\ next_bid = 0
    /\ success = FALSE
    /\ msg = ""
    /\ current_bid = 0
    /\ bidder_id = ""
    /\ my_bid_now = 0
    /\ pc = "sleep"
    /\ completed = 0
    /\ exit = ""
    /\ polls = 1
    /\ last_won = 0
    /\ slices = 0
    /\ now = 0
    /\ ClockInit
    /\ CredInit
    /\ poll_interval_ms \in PollIntervals
    /\ slow_interval = 0
    /\ active_sleep_ms = 0
    /\ seen_synced = FALSE
    /\ AuthInit

NextNap ==
    \/ NapActive
    \/ \E draw \in RandomDraws : NapStandby(draw)

SpecNap == InitNap /\ [][NextNap]_vars

(***************************************************************************)
(* The credential store (src/auth.py) and the headers the bot sends: the   *)
(* token file changes under the bot (login, background refresh, logout)    *)
(* while _get_headers serves the bot's requests.                           *)
(***************************************************************************)
\* tokens the file holds over time: the one of the login and the one a
\* refresh writes
FileTokens == {"t1", "t2"}

\* save_token(access_token, ...): the file is rewritten with the new token
SaveToken(t) ==
    /\ token_file # <<t>>
    /\ token_file' = <<t>>
    /\ UNCHANGED <<bot, clock, others, requests_sent, request_kind, request_auth>>

\* clear_token(): the refresh worker is told to stop and the file is removed
ClearToken ==
    /\ stop_refresh' = TRUE
    /\ token_file' = <<>>
    /\ auth_call' = "clear"
    /\ UNCHANGED <<bot, clock, nap, flag_reader, refresh_thread, worker_pc,
                   requests_sent, request_kind, request_auth>>

\* a poll or a submit asks _get_headers() for its headers and sends its
\* request with them
SendRequest(kind) ==
    /\ requests_sent < MaxSent
    /\ HeadersAvailable(token_file)
    /\ headers' = GetHeaders(token_file)
    /\ request_auth' = headers'
    /\ request_kind' = kind
    /\ requests_sent' = requests_sent + 1
    /\ UNCHANGED <<others, clock, config, running, bidding_active, last_bid_amount,
                   last_bidder_id, my_last_bid, total_bids_submitted, total_requests,
                   is_my_bid, errors, locals, control, env, token_file>>

\* _get_headers() finds neither cached headers nor a stored token and raises
\* ValueError: no request is sent
CredentialMissing(kind) ==
    /\ ~HeadersAvailable(token_file)
    /\ request_kind' = kind
    /\ UNCHANGED <<bot, clock, others, token_file, requests_sent, request_auth>>

\* AutoBidBot.__init__ for another session: the new bot has no cached headers
NewBot ==
    /\ headers # <<>>
    /\ headers' = <<>>
    /\ UNCHANGED <<others, clock, config, running, bidding_active, last_bid_amount,
                   last_bidder_id, my_last_bid, total_bids_submitted, total_requests,
                   is_my_bid, errors, locals, control, env, cred>>

\* the process before any bot runs: no token file, the bot constructed
InitCred ==
    /\ Init
    /\ max_budget = MaxAmount
    /\ kelipatan_bid = 1
    /\ sniper_seconds = 0
    /\ my_user_auction_id = ""
    /\ end_time = <<>>

NextCred ==
    \/ \E t \in FileTokens : SaveToken(t)
    \/ ClearToken
    \/ \E kind \in {"poll", "submit"} : SendRequest(kind)
    \/ \E kind \in {"poll", "submit"} : CredentialMissing(kind)
    \/ NewBot

SpecCred == InitCred /\ [][NextCred]_vars

(***************************************************************************)
(* The background token refresh (src/auth.py) of the interactive process   *)
(* (src/main.py): the main thread starts and stops the refresh worker and  *)
(* logs in and out while the worker thread runs _token_refresh_worker.     *)
(***************************************************************************)
Workers == 1..MaxWorkers

\* the worker threads that have been started and have not returned
Alive == {w \in Workers : worker_pc[w] \notin {"unborn", "dead"}}

\* _refresh_thread and _refresh_thread.is_alive()
ThreadAlive(thread) == thread # 0 /\ thread \in Alive

\* start_token_refresh(), called when is_token_valid(): nothing is done while
\* the thread of the last start is alive; otherwise the Event is cleared and
\* a new daemon thread is started
StartTokenRefresh ==
    /\ token_file # <<>>
    /\ IF ThreadAlive(refresh_thread)
       THEN UNCHANGED <<stop_refresh, refresh_thread, worker_pc>>
       ELSE /\ \E w \in Workers : worker_pc[w] = "unborn"
            /\ LET w == CHOOSE v \in Workers :
                            /\ worker_pc[v] = "unborn"
                            /\ \A u \in Workers : worker_pc[u] = "unborn" => v <= u
               IN  /\ refresh_thread' = w
                   /\ worker_pc' = [worker_pc EXCEPT ![w] = "check"]
            /\ stop_refresh' = FALSE
    /\ auth_call' = "start"
    /\ UNCHANGED <<bot, clock, cred, nap, flag_reader>>

\* stop_token_refresh(): the Event is set
StopTokenRefresh ==
    /\ stop_refresh' = TRUE
    /\ auth_call' = "stop"
    /\ UNCHANGED <<bot, clock, cred, nap, flag_reader, refresh_thread, worker_pc>>

\* _token_refresh_worker, the loop condition: the thread returns once the
\* Event is set
WorkerCheck(w) ==
    /\ worker_pc[w] = "check"
    /\ worker_pc' = [worker_pc EXCEPT ![w] = IF stop_refresh THEN "dead" ELSE "wait"]
    /\ UNCHANGED <<bot, clock, cred, nap, flag_reader, stop_refresh, refresh_thread,
                   auth_call>>

\* _stop_refresh.wait(interval) returns: True and the thread breaks out of
\* the loop when the Event is set, False when the interval has passed
WorkerWait(w) ==
    /\ worker_pc[w] = "wait"
    /\ worker_pc' = [worker_pc EXCEPT ![w] = IF stop_refresh THEN "dead" ELSE "valid"]
    /\ UNCHANGED <<bot, clock, cred, nap, flag_reader, stop_refresh, refresh_thread,
                   auth_call>>

\* if is_token_valid(): the worker calls refresh_access_token() when the file
\* holds a token and goes round the loop when it does not
WorkerValid(w) ==
    /\ worker_pc[w] = "valid"
    /\ worker_pc' = [worker_pc EXCEPT ![w] = IF token_file # <<>> THEN "call" ELSE "check"]
    /\ UNCHANGED <<bot, clock, cred, nap, flag_reader, stop_refresh, refresh_thread,
                   auth_call>>

\* refresh_access_token() returns: on success the new token has been saved,
\* on any failure the file is as it was
WorkerRefresh(w, ok) ==
    /\ worker_pc[w] = "call"
    /\ token_file' = IF ok THEN <<"t2">> ELSE token_file
    /\ worker_pc' = [worker_pc EXCEPT ![w] = "check"]
    /\ UNCHANGED <<bot, clock, nap, flag_reader, stop_refresh, refresh_thread,
                   auth_call, requests_sent, request_kind, request_auth>>

\* the interactive process as it starts: the bot's fields play no part
InitAuth == InitCred

NextAuth ==
    \/ SaveToken("t1")
    \/ ClearToken
    \/ StartTokenRefresh
    \/ StopTokenRefresh
    \/ \E w \in Workers : WorkerCheck(w)
    \/ \E w \in Workers : WorkerWait(w)
    \/ \E w \in Workers : WorkerValid(w)
    \/ \E w \in Workers, ok \in BOOLEAN : WorkerRefresh(w, ok)

SpecAuth == InitAuth /\ [][NextAuth]_vars

(***************************************************************************)
(* Properties                                                              *)
(***************************************************************************)
\* the last entry of the error list, "" when the list is empty
LastError == IF errors = <<>> THEN "" ELSE errors[Len(errors)]

\* C1: every bid handed to submit_bid_fast is at most max_budget: while a
\* submit is in flight, its amount next_bid is within the budget.
BidWithinBudget ==
    pc = "submit" => next_bid <= max_budget

\* C1 witness: a submit in flight for exactly the budget
BidAtBudgetInFlight ==
    pc = "submit" /\ next_bid = max_budget

\* C2: from the moment a computed next bid exceeds max_budget the engine is
\* stopped for budget: run() has left the loop in that same step with
\* running False, so no submit is in flight for that amount and no poll or
\* submit follows.
BudgetStopIsImmediate ==
    next_bid > max_budget => (pc = "done" /\ ~running /\ exit = "budget")

\* C2 witness: the run ended on a next bid above the budget
StoppedOnBudget ==
    exit = "budget" /\ next_bid > max_budget /\ total_requests > NumRequests

\* C3: with an own id configured, no submit is in flight on a tick whose
\* observation names that id as the latest bidder.
NoSubmitOnOwnBid ==
    (pc = "submit" /\ my_user_auction_id # "") => last_bidder_id # my_user_auction_id

\* C3 witness: a tick observed my own bid as the latest one while active,
\* affordable and not below my last bid, and went to sleep without a submit
OwnBidObservedNoSubmit ==
    /\ pc = "sleep"
    /\ my_user_auction_id # ""
    /\ last_bidder_id = my_user_auction_id
    /\ is_my_bid
    /\ bidding_active
    /\ last_bid_amount >= my_last_bid
    /\ last_bid_amount + kelipatan_bid <= max_budget
    /\ total_bids_submitted = 0
    /\ total_requests > NumRequests

\* C4 (as claimed): my_last_bid never decreases from one step to the next.
OwnLastBidNonDecreasing ==
    [][my_last_bid' >= my_last_bid]_vars

\* C5: sniper mode. Without a sniper threshold bidding is active from the
\* start; with one, bidding is inactive as long as the remaining time is
\* above the threshold, is switched on by the top-of-tick check that reads a
\* remaining time within the threshold, and is never switched off again.
SniperMode ==
    [][ /\ (sniper_seconds = 0 => (bidding_active /\ bidding_active'))
        /\ (bidding_active => bidding_active')
        /\ ((sniper_seconds > 0 /\ RemainingSeconds > sniper_seconds) => ~bidding_active)
        /\ ((sniper_seconds > 0 /\ RemainingSeconds' > sniper_seconds) => ~bidding_active')
        /\ ((pc = "top" /\ pc' = "poll" /\ sniper_seconds > 0 /\ remaining' <= sniper_seconds)
               => bidding_active')
      ]_vars

\* C5 witness: a sniper run that was activated and has a bid in flight
SniperActivated ==
    sniper_seconds > 0 /\ bidding_active /\ pc = "submit"

\* C6: Stopped is terminal: whenever running is False after run() started,
\* run() has left the loop and no step of the engine is possible any more.
StoppedIsTerminal ==
    (pc # "init" /\ ~running) => (pc = "done" /\ ~ENABLED Next)

\* C6 witness: a run stopped by cancellation while active, after bidding
StoppedByCancel ==
    pc = "done" /\ ~running /\ exit = "cancel" /\ total_bids_submitted > 0

\* C7 (as claimed): once the remaining time is 0, no poll and no submit is
\* issued any more.
NoCallAfterTimeUp ==
    [][(end_time # <<>> /\ RemainingSeconds = 0)
          => (pc' \in {"race", "submit"} => pc' = pc)]_vars

\* C7 (amended): the top-of-tick check that finds the remaining time at 0
\* stops the engine and ends the loop with nothing issued afterwards; every
\* poll and submit belongs to a tick whose check read a remaining time > 0.
AuctionEndAtTickTop ==
    [][ /\ ((pc = "top" /\ RemainingSeconds <= 0 /\ pc' # pc)
               => (pc' = "done" /\ ~running'))
        /\ (exit' = "auction_end"
               => (pc' = "done" /\ ~running' /\ total_requests' = total_requests))
        /\ (pc' \in {"poll", "race", "drain", "submit"} => remaining' > 0)
      ]_vars

\* C7 witness: the auction ended after at least one full tick
EndedMidLoop ==
    exit = "auction_end" /\ pc = "done" /\ total_requests > NumRequests

\* C8: a failed submit leaves my_last_bid and the submitted-bid counter as
\* they were and appends its message as the newest error.
FailedSubmitRecorded ==
    [][(pc = "submit" /\ pc' = "sleep" /\ ~success')
          => /\ my_last_bid' = my_last_bid
             /\ total_bids_submitted' = total_bids_submitted
             /\ errors' = Append(errors, msg')
             /\ msg' # "Success"]_vars

\* C8 witness: a business rejection was recorded while an own bid was known
RejectionRecorded ==
    /\ pc = "sleep"
    /\ ~success
    /\ msg = "passkey salah"
    /\ LastError = "passkey salah"
    /\ my_last_bid > 0
    /\ my_last_bid < next_bid

\* C9 (as claimed): run() ends only on auction end, budget exceedance or
\* cancellation.
StopsOnlyForThreeReasons ==
    pc \in {"done", "raised"} => exit \in {"auction_end", "budget", "cancel"}

\* C10 (as claimed): a tick that finds no credential (nothing cached, nothing
\* stored) is skipped: the loop goes to its sleep with running True and the
\* bot's fields as they were.
CredentialFailureSkipsTick ==
    [][(pc = "poll" /\ headers = <<>> /\ headers' = <<>> /\ pc' # pc /\ exit' # "cancel")
          => (pc' = "sleep" /\ running' /\ UNCHANGED fields)]_vars

\* C11: when the last request of a race comes back unusable after the others
\* did (exception, non-200 or empty ledger, all three of them), the poller
\* ends with the observation (0, "", 0) and without an exception; run() then
\* takes that observation with running, the mode and the last seen bid
\* unchanged and goes to the sleep that precedes the next tick.
SentinelOnTotalFailure ==
    [][ /\ (pc = "race" /\ completed = NumRequests - 1)
              => \A resp \in RaceResponses :
                    (Unusable(resp) /\ FutureCompleted(resp))
                      => /\ current_bid' = 0 /\ bidder_id' = "" /\ my_bid_now' = 0
                         /\ pc' = "drain" /\ completed' = NumRequests
                         /\ exit' = exit
        /\ (pc = "drain" /\ bidder_id = "" /\ pc' # pc /\ exit' # "cancel")
              => /\ pc' = "sleep"
                 /\ running' /\ exit' = ""
                 /\ bidding_active' = bidding_active
                 /\ UNCHANGED <<last_bid_amount, last_bidder_id, my_last_bid, is_my_bid,
                                total_bids_submitted, errors>>
      ]_vars

\* C11 witness: the only poll so far observed nothing, after the initial
\* fetch had seen a bid; the loop is at its sleep, still running
SleepAfterTotalFailure ==
    /\ pc = "sleep"
    /\ running
    /\ total_requests = 1 + NumRequests
    /\ current_bid = 0 /\ bidder_id = "" /\ my_bid_now = 0
    /\ last_bid_amount > 0

\* C12 (as claimed): the poller returns as soon as one request has produced
\* a usable response; it is never found holding its observation while other
\* requests of the tick are still in flight.
ReturnsOnFirstUsable ==
    ~(pc = "drain" /\ completed < NumRequests)

\* C13: a submit is reported successful exactly when the response has HTTP
\* status 200 and body code 200; HTTP 200 with another body code is reported
\* failed with the body's message.
SuccessIffBodyCode200 ==
    [][pc = "submit"
          => \A resp \in SubmitResponses :
                SubmitReturn(resp)
                  => /\ success' <=> (resp.kind = "http" /\ resp.status = 200
                                        /\ resp.code = 200)
                     /\ (resp.kind = "http" /\ resp.status = 200 /\ resp.code # 200
                           /\ resp.message # <<>>)
                          => (~success' /\ msg' = resp.message[1])
      ]_vars

\* C13 witness: the first submit of a run came back as a failure carrying a
\* message that only an HTTP 200 body with a code other than 200 produces
BusinessRejectionReported ==
    /\ pc = "sleep"
    /\ ~success
    /\ msg \in {"passkey salah", "Unknown error"}
    /\ total_requests = 1 + NumRequests + 1
    /\ total_bids_submitted = 0

\* C14: every way a submit can fail (the request raised, an HTTP status
\* other than 200, HTTP 200 with a body code other than 200) comes back to
\* run() as (False, message) and not as an exception, and run() goes on to
\* the sleep before the next tick with running, the mode and the exit reason
\* as they were.
FailedSubmitContinues ==
    [][ /\ pc = "submit"
              => \A resp \in SubmitResponses :
                    (SubmitReturn(resp)
                       /\ ~(resp.kind = "http" /\ resp.status = 200 /\ resp.code = 200))
                      => /\ ~success' /\ msg' \notin {"", "Success"}
                         /\ pc' = "sleep"
                         /\ running' /\ exit' = ""
                         /\ bidding_active' = bidding_active
        /\ (pc = "submit" /\ pc' # pc /\ exit' # "cancel") => (pc' = "sleep" /\ running')
      ]_vars

\* C14 witness: a submit failed at the HTTP level and the loop, still
\* running, is at the sleep before the next tick
LoopContinuesAfterHttpFailure ==
    /\ pc = "sleep"
    /\ running
    /\ ~success
    /\ msg = "HTTP 500"
    /\ LastError = "HTTP 500"
    /\ bidding_active

\* C15 (as claimed): no bidTime is taken from a clock that has never been
\* synced: whenever submit_bid_fast takes a bidTime, _is_synced is True.
BidTimeOnlyWhenSynced ==
    [][bid_time' # bid_time => is_synced]_vars

\* C16: every get_server_time() returns the local time plus the offset in
\* force; once a sync has succeeded that offset is the one the last
\* successful sync computed, and it changes only when a sync writes it, so
\* two reads without a sync in between differ by the elapsed local time.
NowIsLocalPlusRecordedOffset ==
    [][ /\ reading' # reading => reading' = <<local_now + server_time_offset>>
        /\ server_time_offset' # server_time_offset
              => (sync_pc = "lock" /\ server_time_offset' = new_offset)
        /\ (is_synced' /\ sync_pc' \in {"idle", "sent"})
              => server_time_offset' = new_offset'
      ]_vars

\* C16 witness: after a successful sync that recorded a non-zero offset and
\* some local time later, a read returned local time plus that offset
ReadAfterSync ==
    /\ is_synced
    /\ sync_pc = "idle"
    /\ sync_result = <<TRUE>>
    /\ server_time_offset # 0
    /\ local_now > local_before
    /\ reading = <<local_now + server_time_offset>>

\* C17: a sync whose request raises, or whose response has neither a body
\* time that parses nor a Date header that parses, returns False (it does
\* not raise); and every sync that returns False leaves the recorded offset
\* and the synced flag as they were.
FailedSyncKeepsOffset ==
    [][ /\ (sync_pc = "sent" /\ sync_pc' # "sent")
              => \A resp \in SyncResponses :
                    (SyncResponse(resp)
                       /\ (resp.kind = "exc"
                             \/ (resp.body.form # "time" /\ resp.date.form # "date")))
                      => (sync_result' = <<FALSE>> /\ sync_pc' = "idle")
        /\ (sync_pc = "sent" /\ sync_pc' = "idle")
              => /\ sync_result' = <<FALSE>>
                 /\ server_time_offset' = server_time_offset
                 /\ is_synced' = is_synced
      ]_vars

\* C17 witness: a sync failed after an earlier one had succeeded; the offset
\* of the earlier one is still in force
FailedSyncAfterSuccess ==
    /\ sync_pc = "idle"
    /\ sync_result = <<FALSE>>
    /\ is_synced
    /\ server_time_offset # 0
    /\ server_time_offset = new_offset

\* C18: submits are sequential and at most one per tick: a submit is issued
\* only by the return of the tick's poll, nothing of the bot changes while it
\* is in flight, and when it returns the tick goes to its sleep, so that
\* another submit needs another tick.
OneSubmitPerTick ==
    [][ /\ (pc' = "submit" /\ pc # "submit") => pc = "drain"
        /\ (pc = "submit" /\ pc' = "submit") => UNCHANGED <<fields, locals>>
        /\ (pc = "submit" /\ total_requests' # total_requests)
              => (pc' = "sleep" /\ total_requests' = total_requests + 1)
      ]_vars

\* C18 witness: the submit of a second tick is in flight after the first
\* tick's poll and submit have returned
SecondSubmitInFlight ==
    pc = "submit" /\ total_requests = 2 * NumRequests + 2

\* C19: the submitted-bid counter counts the successful submits: it starts
\* at 0, a submit that returns success sets my_last_bid to the submitted
\* amount and adds exactly one to the counter, and no other step changes the
\* counter.
CounterCountsSuccessfulSubmits ==
    /\ total_bids_submitted = 0
    /\ [][ /\ (pc = "submit" /\ total_requests' # total_requests /\ success')
                 => /\ my_last_bid' = next_bid
                    /\ total_bids_submitted' = total_bids_submitted + 1
           /\ total_bids_submitted' # total_bids_submitted
                 => (pc = "submit" /\ total_requests' # total_requests /\ success')
         ]_vars

\* C19 witness: two submits have returned, one failed and one succeeded; the
\* counter is 1 and my_last_bid is the amount of the one that succeeded
OneOfTwoSubmitsCounted ==
    /\ pc = "sleep"
    /\ total_requests = 2 * NumRequests + 3
    /\ success
    /\ total_bids_submitted = 1
    /\ my_last_bid = next_bid

\* C20: every racing poll that returns to run() adds exactly NumRequests, the
\* width of the race, to the request counter, whatever it observed (the
\* observation of one request, or nothing because all of them failed); and
\* no step of the run decreases the request counter.
PollCountsWholeRace ==
    [][ /\ (pc = "drain" /\ pc' # "drain" /\ exit' # "cancel")
              => total_requests' = total_requests + NumRequests
        /\ total_requests' >= total_requests
      ]_vars

\* C20 witness: two polls have returned, the second one without any usable
\* response, and the counter holds the initial fetch and both races in full
FailedRaceCounted ==
    /\ pc = "sleep"
    /\ current_bid = 0 /\ bidder_id = ""
    /\ total_requests = 1 + 2 * NumRequests

\* C21: when a poll returns a positive observation, run() goes on to a bid
\* attempt (a submit, or the stop on budget) exactly when bidding is active,
\* the observed bidder is not me and the observed amount is at least
\* my_last_bid as just reconciled; otherwise the tick goes to its sleep with
\* the engine running.
AttemptIffEligible ==
    [][(pc = "drain" /\ pc' # "drain" /\ exit' # "cancel" /\ current_bid > 0)
          => /\ (pc' = "submit" \/ exit' = "budget")
                   <=> /\ bidding_active
                       /\ ~(my_user_auction_id # "" /\ bidder_id = my_user_auction_id)
                       /\ current_bid >= my_last_bid'
             /\ (pc' # "submit" /\ exit' # "budget") => (pc' = "sleep" /\ running')
      ]_vars

\* C21 witness: after a tick that bid successfully, the next active tick
\* observed a positive bid of another bidder below my own last bid and went
\* to its sleep without a bid attempt
BelowOwnBidNoAttempt ==
    /\ pc = "sleep"
    /\ total_requests = 2 * NumRequests + 2
    /\ total_bids_submitted = 1
    /\ bidding_active
    /\ current_bid > 0
    /\ bidder_id = "other"
    /\ current_bid < my_last_bid
    /\ last_bid_amount = current_bid

\* C22 (as claimed): the engine never outbids itself, whatever own id is
\* configured: no submit is in flight on a tick whose observation is the
\* operator's own ledger entry ("me") for the amount of the engine's last
\* successful submit.
NeverOutbidsItself ==
    ~(/\ pc = "submit"
      /\ total_bids_submitted > 0
      /\ bidder_id = "me"
      /\ current_bid = my_last_bid)

\* C23 (as claimed): in any mode and whoever the latest bidder is, a tick
\* whose observed amount plus the increment exceeds max_budget stops the
\* engine.
BudgetStopFromAnyMode ==
    [][(pc = "drain" /\ pc' # "drain" /\ exit' # "cancel"
          /\ current_bid > 0 /\ current_bid + kelipatan_bid > max_budget)
          => (pc' = "done" /\ ~running')]_vars

\* C23 (amended): a tick whose observed amount plus the increment exceeds
\* max_budget stops the engine exactly when the observation is eligible for a
\* bid (bidding active, observed bidder not me, observed amount at least
\* my_last_bid as reconciled); in standby, on my own bid or below my own bid
\* the tick goes to its sleep with the engine running.
BudgetStopOnlyWhenEligible ==
    [][(pc = "drain" /\ pc' # "drain" /\ exit' # "cancel"
          /\ current_bid > 0 /\ current_bid + kelipatan_bid > max_budget)
          => IF /\ bidding_active
                /\ ~(my_user_auction_id # "" /\ bidder_id = my_user_auction_id)
                /\ current_bid >= my_last_bid'
               THEN pc' = "done" /\ ~running' /\ exit' = "budget"
               ELSE pc' = "sleep" /\ running' /\ exit' = ""
      ]_vars

\* C23 witness: a sniper run was activated and then stopped on budget
SniperStoppedOnBudget ==
    /\ exit = "budget"
    /\ pc = "done"
    /\ ~running
    /\ sniper_seconds > 0
    /\ bidding_active
    /\ current_bid + kelipatan_bid > max_budget

\* C24 (as claimed): cancellation never interrupts a call in flight; in
\* particular a run never ends by cancellation while its submit is in flight,
\* before the outcome of that submit has been recorded.
SubmitNeverInterrupted ==
    [][pc = "submit" => exit' # "cancel"]_vars

\* C25 (as claimed): a racing poll that returns without an observation
\* because all of its requests failed or came back empty appends an error to
\* the error list.
TotalFailureRecorded ==
    [][(pc = "drain" /\ bidder_id = "" /\ pc' = "sleep")
          => Len(errors') = Len(errors) + 1]_vars

\* C26 (as claimed): every request of the bot carries the bearer token that
\* is in the credential store when the request is sent.
RequestCarriesStoredToken ==
    [][(requests_sent' # requests_sent /\ token_file # <<>>)
          => request_auth' = token_file]_vars

\* The conditions under which the bid decision of run() submits next_bid once
\* more when the poll observes the last seen entry again: the last submit
\* failed, bidding is active, the last seen entry is not mine and not below my
\* own last bid, and next_bid was computed from it within the budget.
RetryReady ==
    /\ ~success
    /\ msg # ""
    /\ bidding_active
    /\ last_bid_amount > 0
    /\ ~IsSelf(last_bidder_id)
    /\ my_last_bid <= last_bid_amount
    /\ next_bid = last_bid_amount + kelipatan_bid
    /\ next_bid <= max_budget

\* C27: a failed submit is retried with the same amount on the next tick that
\* observes the same ledger. (1) A failed submit leaves my own last bid as it
\* was and leaves the engine ready to retry; (2) nothing between the failed
\* submit and the return of the next poll changes that; (3) when the next poll
\* returns the entry last seen, with my own record as the engine holds it, the
\* engine submits the same amount again.
FailedSubmitRetried ==
    [][/\ (pc = "submit" /\ pc' = "sleep" /\ ~success')
            => (RetryReady' /\ my_last_bid' = my_last_bid /\ running')
       /\ (pc \in {"sleep", "top", "poll", "race"} /\ RetryReady
              /\ pc' \in {"sleep", "top", "poll", "race", "drain"})
            => RetryReady'
       /\ (pc = "drain" /\ pc' # "drain" /\ exit' # "cancel" /\ RetryReady
              /\ current_bid = last_bid_amount /\ bidder_id = last_bidder_id
              /\ my_bid_now \in {0, my_last_bid})
            => (pc' = "submit" /\ next_bid' = next_bid)
      ]_vars

\* C27 witness: the submit of the first tick failed, the second poll saw the
\* same entry, and the same amount is being submitted again
RetryInFlight ==
    /\ pc = "submit"
    /\ total_requests = 2 * NumRequests + 2
    /\ ~success
    /\ msg # ""
    /\ total_bids_submitted = 0
    /\ next_bid = current_bid + kelipatan_bid
    /\ bidder_id = "other"

\* C28: the amount a submit carries is the amount observed on the same tick
\* plus kelipatan_bid; no other amount is ever submitted.
SubmitsObservedPlusIncrement ==
    pc = "submit" => next_bid = current_bid + kelipatan_bid

\* C28 witness: a submit is in flight for an observation that is above my own
\* last bid, so the amount is the observed one plus the increment
SubmitAboveOwnBid ==
    /\ pc = "submit"
    /\ my_last_bid > 0
    /\ current_bid > my_last_bid
    /\ next_bid = current_bid + kelipatan_bid

\* C29 (as claimed): when a racing poll returns and run() updates
\* avg_response_time_ms, the divisor total_requests // 3 it uses is the number
\* of racing polls performed so far, and it is not zero.
DivisorIsPollCount ==
    [][polls' = polls + 1
          => /\ AvgDivisor(total_requests') = polls'
             /\ AvgDivisor(total_requests') > 0]_vars

\* C30: the standby sleep is re-checked slice by slice. (1) A slice that ends
\* with the remaining time at or below the sniper threshold ends the sleep: the
\* engine never stays asleep past it. (2) The tick that follows, with time
\* remaining, activates bidding at its start and polls as an active engine.
StandbySleepEndsAtThreshold ==
    [][/\ (pc = "sleep" /\ ~bidding_active /\ now' = now
              /\ RemainingSeconds <= sniper_seconds)
            => (pc' = "top" \/ exit' = "cancel")
       /\ (pc = "top" /\ ~bidding_active /\ now' = now /\ exit' # "cancel"
              /\ RemainingSeconds > 0 /\ RemainingSeconds <= sniper_seconds)
            => (bidding_active' /\ pc' = "poll" /\ running')
      ]_vars

\* C30 witness: the first tick polled in standby (it saw a bid it would have
\* answered had it been active), the sleep ended, and the second tick is about
\* to poll with bidding active
ActivatedAfterStandbySleep ==
    /\ pc = "poll"
    /\ bidding_active
    /\ sniper_seconds > 0
    /\ total_requests = NumRequests + 1
    /\ current_bid > 0
    /\ bidder_id = "other"
    /\ my_last_bid <= current_bid
    /\ current_bid + kelipatan_bid <= max_budget
    /\ remaining <= sniper_seconds

\* C31: the sleep a tick chooses. In standby the interval lies in
\* [SlowMin, SlowMax] when the time to sniper activation is at least
\* NearSnipe, is at most NearCeiling when that time is below NearSnipe, and is
\* at most SoonCeiling when it is below SoonSnipe; in active mode the sleep is
\* the configured poll interval.
SleepIntervalByMode ==
    pc = "napping" =>
        IF bidding_active
            THEN active_sleep_ms = poll_interval_ms /\ slow_interval = 0
            ELSE LET time_to_snipe == remaining - sniper_seconds
                 IN  /\ active_sleep_ms = 0
                     /\ slow_interval > 0
                     /\ time_to_snipe >= NearSnipe
                           => (slow_interval >= SlowMin /\ slow_interval <= SlowMax)
                     /\ time_to_snipe < NearSnipe => slow_interval <= NearCeiling
                     /\ time_to_snipe < SoonSnipe => slow_interval <= SoonCeiling

\* C31 witness: a standby sleep chosen less than a minute before activation
ShortStandbySleep ==
    /\ pc = "napping"
    /\ ~bidding_active
    /\ remaining - sniper_seconds < SoonSnipe
    /\ slow_interval = SoonCeiling

\* C32 (as claimed): with sniper_seconds > 0 and no (parseable) end time the
\* engine stays in standby for the whole run and never submits a bid, and the
\* run ends only by cancellation.
NoEndTimeSniperStandsBy ==
    (sniper_seconds > 0 /\ end_time = <<>>)
        => /\ ~bidding_active
           /\ pc # "submit"
           /\ total_bids_submitted = 0
           /\ pc \in {"done", "raised"} => exit = "cancel"

\* the ledger reads of the racing poll that have been launched and have not
\* completed
InFlight == IF pc \in {"race", "drain"} THEN NumRequests - completed ELSE 0

\* C33: at most NumRequests ledger reads are in flight; the reads of a tick
\* have all completed when the observation reaches run() (before a submit of
\* that tick is issued, before its sleep and so before the next tick launches
\* its reads), and a tick launches its reads with none in flight.
ReadsOfATickDoNotOverlap ==
    [][/\ InFlight' >= 0 /\ InFlight' <= NumRequests
       /\ (pc = "drain" /\ pc' \in {"submit", "sleep"}) => InFlight = 0
       /\ (pc' = "submit" /\ pc # "submit") => pc = "drain"
       /\ (pc' = "race" /\ pc # "race")
            => (pc = "poll" /\ InFlight = 0 /\ InFlight' = NumRequests)
      ]_vars

\* C33 witness: the second tick submits after its race has completed (the
\* first tick's reads were over before it launched its own)
SecondTickSubmitsAfterRace ==
    /\ pc = "submit"
    /\ polls = 2
    /\ InFlight = 0
    /\ completed = 0

\* C34 (as claimed): the amounts of the successful submits of a run are
\* strictly increasing: a submit that succeeds is above the latest successful
\* one before it.
SuccessfulAmountsIncrease ==
    [][(pc = "submit" /\ success' /\ pc' = "sleep" /\ last_won > 0)
          => next_bid > last_won]_vars

\* C35: the observation of the racing poll comes from the first response to
\* complete that is HTTP 200 with a non-empty ledger. A response that failed,
\* was not 200 or carried an empty ledger is skipped while other requests of
\* the tick are outstanding, and the usable response that completes after it
\* gives the observation.
ObservationFromFirstUsable ==
    [][pc = "race"
          => \A resp \in RaceResponses :
                FutureCompleted(resp)
                  => /\ (resp.kind = "ok" /\ resp.items # <<>>)
                          => /\ <<current_bid', bidder_id', my_bid_now'>> = ParseLedger(resp.items)
                             /\ pc' = "drain"
                     /\ (Unusable(resp) /\ completed + 1 < NumRequests)
                          => /\ pc' = "race"
                             /\ completed' = completed + 1
                             /\ UNCHANGED <<current_bid, bidder_id, my_bid_now>>
      ]_vars

\* C35 witness: two responses of the first tick were skipped and the race
\* waits for the third
TwoSkippedOnePending ==
    /\ pc = "race"
    /\ polls = 0
    /\ completed = NumRequests - 1
    /\ current_bid = 0
    /\ bidder_id = ""

\* C36: a tick whose observation is the sentinel (amount 0, no bidder, no own
\* record) changes only the request counter and the statistics: the last
\* observed amount and bidder, the self-bid flag, my own last bid and the
\* counter of submitted bids are as before, and no submit is issued.
SentinelTickChangesOnlyCounters ==
    [][(pc = "drain" /\ <<current_bid, bidder_id, my_bid_now>> = Sentinel
          /\ pc' # "drain" /\ exit' # "cancel")
          => /\ UNCHANGED <<last_bid_amount, last_bidder_id, is_my_bid, my_last_bid,
                            total_bids_submitted, last_won, next_bid, bidding_active,
                            running, errors>>
             /\ pc' = "sleep"
             /\ total_requests' = total_requests + NumRequests
             /\ polls' = polls + 1
      ]_vars

\* C36 witness: the second tick observed nothing after the first tick's bid
\* had been accepted; what the first tick left is still there
NothingSeenAfterAcceptedBid ==
    /\ pc = "sleep"
    /\ polls = 2
    /\ <<current_bid, bidder_id, my_bid_now>> = Sentinel
    /\ total_bids_submitted = 1
    /\ my_last_bid = last_won
    /\ my_last_bid = last_bid_amount + kelipatan_bid
    /\ total_requests = 2 * NumRequests + 2

\* the amount of the most recent record of a page (the one with the smallest
\* index) whose bidder id is the configured own id; 0 without such a record
\* or without own id
FirstOwnAmount(items) ==
    LET mine == {i \in 1..Len(items) : items[i].userAuctionId = my_user_auction_id}
    IN  IF my_user_auction_id = "" \/ mine = {} THEN 0
        ELSE items[CHOOSE i \in mine : \A k \in mine : i <= k].bidAmount

\* C37: the own-last-bid component of an observation is the amount of the
\* first record of the returned page whose bidder id is my own id, and 0 when
\* no record matches or no own id is configured; an own-last-bid component of
\* 0 leaves my_last_bid as it was.
OwnRecordIsFirstMatch ==
    [][/\ pc = "race"
            => \A resp \in RaceResponses :
                  (FutureCompleted(resp) /\ resp.kind = "ok" /\ resp.items # <<>>)
                     => my_bid_now' = FirstOwnAmount(resp.items)
       /\ (pc = "drain" /\ pc' # "drain" /\ exit' # "cancel")
            => my_last_bid' = IF my_bid_now = 0 THEN my_last_bid ELSE my_bid_now
      ]_vars

\* C37 witness: the page led with another bidder's record and held no record
\* of mine, and my_last_bid still is the amount of my accepted bid
NoOwnRecordKeepsOwnBid ==
    /\ pc = "sleep"
    /\ polls = 2
    /\ my_user_auction_id = "me"
    /\ bidder_id = "other"
    /\ current_bid > 0
    /\ my_bid_now = 0
    /\ my_last_bid > 0
    /\ my_last_bid = last_won

\* C38: with a sync running beside the readers, every get_server_time()
\* returns the local time plus an offset that is the initial one or the one a
\* completed successful sync wrote: it never reads between the write of the
\* offset and the write of the flag. Once is_time_synced() has returned True
\* the flag stays True, so a read after it returns an offset a successful
\* sync wrote.
ReadersSeeWholeSyncs ==
    [][/\ reading' # reading
            => /\ reading' = <<local_now + server_time_offset>>
               /\ sync_pc # "flag"
               /\ is_synced \/ server_time_offset = 0
               /\ seen_synced => (is_synced /\ sync_result # <<>>)
       /\ seen_synced' => is_synced'
      ]_vars

\* C38 witness: the flag was observed True and a read was made while a second
\* sync had its offset computed and was waiting to write it
ReadBesideSecondSync ==
    /\ seen_synced
    /\ is_synced
    /\ sync_pc = "lock"
    /\ new_offset # server_time_offset
    /\ reading = <<local_now + server_time_offset>>
    /\ server_time_offset # 0

\* C39 (as claimed): with an end time configured and server time advancing,
\* every run eventually reaches Stopped (by the auction-end check, on budget
\* or by cancellation).
EveryRunStops ==
    <>(pc = "done" /\ ~running)

\* C40: when start_token_refresh() returns, exactly one refresh worker is
\* alive and the stop flag is clear, also when the worker of a preceding
\* stop_token_refresh() or clear_token() has been signalled and has not yet
\* returned; and two refresh workers are never alive together
StartLeavesOneWorker ==
    [][/\ Cardinality(Alive') <= 1
       /\ (auth_call' = "start" /\ (auth_call # "start" \/ refresh_thread' # refresh_thread))
            => (Cardinality(Alive') = 1 /\ ~stop_refresh')]_vars

=============================================================================
